---- MODULE Spec2Model ----
(***************************************************************************)
(* A model of src/wad/level.rs: the Level aggregate of a Doom WAD level,   *)
(* its loader Level::from_archive and the query methods of impl Level.     *)
(*                                                                         *)
(* Conventions.                                                            *)
(*  - The code indexes its vectors from 0; a TLA+ sequence starts at 1.    *)
(*    Index(v, i) is v[i] of the code and fails (a Rust bounds-check       *)
(*    panic) when i is outside the vector.                                 *)
(*  - A call either returns a value, Ok(v) = <<"ok", v>>, or panics,       *)
(*    Panic = <<"panic">>.  Option<T> is None = <<"none">> or              *)
(*    Some(v) = <<"some", v>>.                                             *)
(*  - Record fields the code of level.rs never reads (heights, flags,      *)
(*    linedef vertices, ...) are left out of the records.                  *)
(***************************************************************************)
EXTENDS Integers, Sequences, FiniteSets, TLC

VARIABLES archive, pc, level, reads, lastCall

vars == <<archive, pc, level, reads, lastCall>>

----------------------------------------------------------------------------
(* Results, options and integer conversions *)

Ok(v) == <<"ok", v>>

Panic == <<"panic">>

IsOk(r) == Len(r) = 2 /\ r[1] = "ok"

None == <<"none">>

Some(v) == <<"some", v>>

IsSome(o) == Len(o) = 2 /\ o[1] = "some"

\* `x as uint` of a signed 16-bit x: sign extension, so a negative x becomes
\* 2^w + x for the machine's word width w (32 or 64).  TLC's integers are 32
\* bits wide, so the wrapped value is represented by 2^30 + x: like the real
\* one it is larger than the length of any vector the model builds.
UintWrap == 2^30

AsUint(x) == IF x < 0 THEN UintWrap + x ELSE x

\* SectorId is an unsigned 16-bit integer: `n as SectorId` truncates.
AsSectorId(n) == n % 65536

\* v[i] for a Vec or slice: a bounds-checked access.
InBounds(v, i) == 0 <= i /\ i < Len(v)

Index(v, i) == IF InBounds(v, i) THEN Ok(v[i + 1]) ELSE Panic

\* A variant of slice that also asserts start < v.len().
Slice_StartInside(v, start, end) ==
    IF start <= end /\ end <= Len(v) /\ start < Len(v)
    THEN Ok(SubSeq(v, start + 1, end))
    ELSE Panic

\* v.slice(start, end): asserts start <= end and end <= v.len().
Slice(v, start, end) ==
    IF start <= end /\ end <= Len(v)
    THEN Ok(SubSeq(v, start + 1, end))
    ELSE Panic

----------------------------------------------------------------------------
(* Lump offsets relative to the level's marker lump *)

THINGS_OFFSET == 1
LINEDEFS_OFFSET == 2
SIDEDEFS_OFFSET == 3
VERTICES_OFFSET == 4
SEGS_OFFSET == 5
SSECTORS_OFFSET == 6
\* A variant of NODES_OFFSET with the value of THINGS_OFFSET.
NODES_OFFSET_AsThings == THINGS_OFFSET

NODES_OFFSET == 7
SECTORS_OFFSET == 8

----------------------------------------------------------------------------
(* Collaborators outside level.rs, modelled from their described contract *)

\* from_wad_coords(x, y): the coordinate conversion of super::util, kept as
\* an uninterpreted application to the raw coordinates.
from_wad_coords(x, y) == <<"from_wad_coords", x, y>>

\* WadName::canonicalise: a texture name is a fixed-width byte string; every
\* byte after the first NUL is padding and is cleared.
RECURSIVE CanonFrom(_, _, _)
CanonFrom(name, i, ended) ==
    IF i > Len(name) THEN <<>>
    ELSE LET b == IF ended THEN 0 ELSE name[i]
         IN  <<b>> \o CanonFrom(name, i + 1, ended \/ name[i] = 0)

canonicalise(name) == CanonFrom(name, 1, FALSE)

\* Archive::get_lump_index(name): the position of the named lump, if any.
NoIndex == <<"none">>

get_lump_index(wad) == wad.index

\* Archive::read_lump(index): the records of the lump at that position; it
\* fails when there is no such lump or its bytes are not whole records.
read_lump(wad, index) ==
    IF ~InBounds(wad.lumps, index) THEN Panic
    ELSE IF ~wad.lumps[index + 1].ok THEN Panic
    ELSE Ok(wad.lumps[index + 1].records)

----------------------------------------------------------------------------
(* Level::from_archive *)

\* The order in which from_archive issues its reads.
ReadOrder ==
    <<THINGS_OFFSET, LINEDEFS_OFFSET, VERTICES_OFFSET, SEGS_OFFSET,
      SSECTORS_OFFSET, NODES_OFFSET, SIDEDEFS_OFFSET, SECTORS_OFFSET>>

\* The positions read from the k-th read on: a failed read ends the load.
RECURSIVE ReadsFrom(_, _, _)
ReadsFrom(wad, start_index, k) ==
    IF k > Len(ReadOrder) THEN <<>>
    ELSE LET at == start_index + ReadOrder[k]
         IN  <<at>> \o (IF IsOk(read_lump(wad, at))
                        THEN ReadsFrom(wad, start_index, k + 1)
                        ELSE <<>>)

CanonSidedef(side) ==
    [side EXCEPT !.upper_texture = canonicalise(@),
                 !.lower_texture = canonicalise(@),
                 !.middle_texture = canonicalise(@)]

CanonSector(sector) ==
    [sector EXCEPT !.floor_texture = canonicalise(@),
                   !.ceiling_texture = canonicalise(@)]

\* for side in sidedefs.iter_mut() { ... }
CanonSidedefs(sidedefs) ==
    [i \in 1..Len(sidedefs) |-> CanonSidedef(sidedefs[i])]

\* for sector in sectors.iter_mut() { ... }
CanonSectors(sectors) ==
    [i \in 1..Len(sectors) |-> CanonSector(sectors[i])]

\* A variant of Option::expect that falls back to position 0.
Expect_OrZero(o) == IF IsSome(o) THEN Ok(o[2]) ELSE Ok(0)

\* Option::expect: the value, or a panic when there is none.
Expect(o) == IF IsSome(o) THEN Ok(o[2]) ELSE Panic

\* The outcome of from_archive: its status, the Level it returns (a sequence
\* holding the Level, empty when the call panics) and the reads it issued.
from_archive(wad) ==
    LET found == Expect(get_lump_index(wad))
    IN  IF ~IsOk(found)
        THEN [status |-> "no_such_level", level |-> <<>>, reads |-> <<>>]
        ELSE LET start_index == found[2]
                 issued == ReadsFrom(wad, start_index, 1)
                 lump(offset) == read_lump(wad, start_index + offset)[2]
             IN  IF \E k \in 1..Len(issued) : ~IsOk(read_lump(wad, issued[k]))
                 THEN [status |-> "read_failed", level |-> <<>>,
                       reads |-> issued]
                 ELSE [status |-> "loaded",
                       level |-> <<[things |-> lump(THINGS_OFFSET),
                                    linedefs |-> lump(LINEDEFS_OFFSET),
                                    sidedefs |-> CanonSidedefs(
                                                    lump(SIDEDEFS_OFFSET)),
                                    vertices |-> lump(VERTICES_OFFSET),
                                    segs |-> lump(SEGS_OFFSET),
                                    subsectors |-> lump(SSECTORS_OFFSET),
                                    nodes |-> lump(NODES_OFFSET),
                                    sectors |-> CanonSectors(
                                                    lump(SECTORS_OFFSET))]>>,
                       reads |-> issued]

----------------------------------------------------------------------------
(* The query methods of impl Level.  L is the Level (self).  A returned     *)
(* reference into one of L's vectors is the position of the element,        *)
(* ElemRef(i); an argument passed by reference is the record referred to,   *)
(* except a sector reference, whose address sector_id reads.                *)

ElemRef(i) == <<"elem", i>>

\* &self.v[i]: the reference to the element, after the bounds check.
RefIndex(v, i) == IF InBounds(v, i) THEN Ok(ElemRef(i)) ELSE Panic

vertex(L, id) ==
    LET v == Index(L.vertices, id)
    IN  IF IsOk(v) THEN Ok(from_wad_coords(v[2].x, v[2].y)) ELSE Panic

seg_linedef(L, seg) == RefIndex(L.linedefs, seg.linedef)

seg_vertices(L, seg) ==
    LET a == vertex(L, seg.start_vertex)
        b == vertex(L, seg.end_vertex)
    IN  IF IsOk(a) /\ IsOk(b) THEN Ok(<<a[2], b[2]>>) ELSE Panic

\* A variant of left_sidedef that matches on the linedef's right side.
left_sidedef_ReadsRight(L, linedef) ==
    IF linedef.right_side = -1 THEN Ok(None)
    ELSE LET r == RefIndex(L.sidedefs, AsUint(linedef.right_side))
         IN  IF IsOk(r) THEN Ok(Some(r[2])) ELSE Panic

left_sidedef(L, linedef) ==
    IF linedef.left_side = -1 THEN Ok(None)
    ELSE LET r == RefIndex(L.sidedefs, AsUint(linedef.left_side))
         IN  IF IsOk(r) THEN Ok(Some(r[2])) ELSE Panic

\* A variant of right_sidedef that returns nothing whenever either side is
\* missing.
right_sidedef_EitherMissing(L, linedef) ==
    IF linedef.right_side = -1 \/ linedef.left_side = -1 THEN Ok(None)
    ELSE LET r == RefIndex(L.sidedefs, AsUint(linedef.right_side))
         IN  IF IsOk(r) THEN Ok(Some(r[2])) ELSE Panic

right_sidedef(L, linedef) ==
    IF linedef.right_side = -1 THEN Ok(None)
    ELSE LET r == RefIndex(L.sidedefs, AsUint(linedef.right_side))
         IN  IF IsOk(r) THEN Ok(Some(r[2])) ELSE Panic

\* Option::unwrap of a call's result: None panics.
Unwrap(r) == IF IsOk(r) /\ IsSome(r[2]) THEN Ok(r[2][2]) ELSE Panic

\* A variant of seg_sidedef that falls back to the other side when the front
\* side is missing.
seg_sidedef_FallsBack(L, seg) ==
    LET line == seg_linedef(L, seg)
    IN  IF ~IsOk(line) THEN Panic
        ELSE LET right == right_sidedef(L, L.linedefs[line[2][2] + 1])
                 left == left_sidedef(L, L.linedefs[line[2][2] + 1])
                 front == IF seg.direction = 0 THEN right ELSE left
                 back == IF seg.direction = 0 THEN left ELSE right
             IN  IF front = Ok(None) THEN Unwrap(back) ELSE Unwrap(front)

seg_sidedef(L, seg) ==
    LET line == seg_linedef(L, seg)
    IN  IF ~IsOk(line) THEN Panic
        ELSE IF seg.direction = 0
             THEN Unwrap(right_sidedef(L, L.linedefs[line[2][2] + 1]))
             ELSE Unwrap(left_sidedef(L, L.linedefs[line[2][2] + 1]))

\* A variant of seg_back_sidedef with the direction test of seg_sidedef.
seg_back_sidedef_FrontTest(L, seg) ==
    LET line == seg_linedef(L, seg)
    IN  IF ~IsOk(line) THEN Panic
        ELSE IF seg.direction = 0
             THEN right_sidedef(L, L.linedefs[line[2][2] + 1])
             ELSE left_sidedef(L, L.linedefs[line[2][2] + 1])

seg_back_sidedef(L, seg) ==
    LET line == seg_linedef(L, seg)
    IN  IF ~IsOk(line) THEN Panic
        ELSE IF seg.direction = 1
             THEN right_sidedef(L, L.linedefs[line[2][2] + 1])
             ELSE left_sidedef(L, L.linedefs[line[2][2] + 1])

\* A variant of sidedef_sector that clamps the index to the last sector.
sidedef_sector_Clamped(L, sidedef) ==
    IF L.sectors = <<>> THEN Panic
    ELSE IF sidedef.sector >= Len(L.sectors)
         THEN Ok(ElemRef(Len(L.sectors) - 1))
         ELSE Ok(ElemRef(sidedef.sector))

sidedef_sector(L, sidedef) == RefIndex(L.sectors, sidedef.sector)

seg_sector(L, seg) ==
    LET side == seg_sidedef(L, seg)
    IN  IF ~IsOk(side) THEN Panic
        ELSE sidedef_sector(L, L.sidedefs[side[2][2] + 1])

seg_back_sector(L, seg) ==
    LET back == seg_back_sidedef(L, seg)
    IN  IF ~IsOk(back) THEN Panic
        ELSE IF ~IsSome(back[2]) THEN Ok(None)
        ELSE LET s == sidedef_sector(L, L.sidedefs[back[2][2][2] + 1])
             IN  IF IsOk(s) THEN Ok(Some(s[2])) ELSE Panic

ssector_segs(L, ssector) ==
    Slice(L.segs, ssector.first_seg, ssector.first_seg + ssector.num_segs)

\* A sector reference is ElemRef(i), the address of L.sectors[i], or
\* <<"copy", sector, q>>, the address of a WadSector stored anywhere else; q
\* is the quotient sector_id computes from that address, which is whatever
\* the allocator makes it (Len(L.sectors) stands for every quotient that is
\* not below the length).
SectorAt(L, ref) == IF ref[1] = "elem" THEN L.sectors[ref[2] + 1] ELSE ref[2]

\* (address of the sector - address of the first element) / element size.
AddressQuotient(ref) == IF ref[1] = "elem" THEN ref[2] ELSE ref[3]

sector_id(L, ref) ==
    LET id == AddressQuotient(ref)
    IN  IF id < Len(L.sectors) THEN Ok(AsSectorId(id)) ELSE Panic

\* The loop of sector_min_light from the k-th linedef on, with the running
\* minimum min_light.
RECURSIVE MinLightScan(_, _, _, _)
MinLightScan(L, id, k, min_light) ==
    IF k > Len(L.linedefs) THEN Ok(min_light)
    ELSE
    LET line == L.linedefs[k]
        l == left_sidedef(L, line)
        r == right_sidedef(L, line)
    IN  IF ~IsOk(l) THEN Panic
        ELSE IF ~IsSome(l[2]) THEN MinLightScan(L, id, k + 1, min_light)
        ELSE IF ~IsOk(r) THEN Panic
        ELSE IF ~IsSome(r[2]) THEN MinLightScan(L, id, k + 1, min_light)
        ELSE
        LET left == L.sidedefs[l[2][2][2] + 1].sector
            right == L.sidedefs[r[2][2][2] + 1].sector
            adjacent == IF left = id THEN Index(L.sectors, right)
                        ELSE IF right = id THEN Index(L.sectors, left)
                        ELSE None
        IN  IF adjacent = None THEN MinLightScan(L, id, k + 1, min_light)
            ELSE IF ~IsOk(adjacent) THEN Panic
            ELSE MinLightScan(L, id, k + 1,
                     IF adjacent[2].light < min_light
                     THEN adjacent[2].light ELSE min_light)

sector_min_light(L, ref) ==
    LET id == sector_id(L, ref)
    IN  IF IsOk(id) THEN MinLightScan(L, id[2], 1, SectorAt(L, ref).light)
        ELSE Panic

----------------------------------------------------------------------------
(* The archives the model loads from *)

\* Bounds of the generated archives.
MaxSectors == 2
MaxLinedefs == 1
MaxSegs == 2
MaxMarker == 1

\* The length of a sector lump long enough that the position of its last
\* sector does not fit a SectorId.
WideSectors == 65537

LightLevels == {50, 120, 200}

\* The threads that query a loaded Level.
Readers == {"r1", "r2"}

SeqsUpTo(S, n) == UNION {[1..k -> S] : k \in 0..n}

\* Texture names as stored in a lump (two bytes wide here), and one that
\* canonicalise leaves as it is.
RawNames == {<<65, 0>>, <<65, 66>>, <<0, 66>>}

PlainName == <<65, 0>>

MkSector(light, name) ==
    [light |-> light, floor_texture |-> name, ceiling_texture |-> PlainName]

MkSidedef(sector, name) ==
    [sector |-> sector, upper_texture |-> PlainName, lower_texture |-> name,
     middle_texture |-> PlainName]

MkLinedef(l, r) == [left_side |-> l, right_side |-> r]

MkSeg(linedef, direction, start_vertex, end_vertex) ==
    [linedef |-> linedef, direction |-> direction,
     start_vertex |-> start_vertex, end_vertex |-> end_vertex]

MkSubsector(first_seg, num_segs) ==
    [first_seg |-> first_seg, num_segs |-> num_segs]

MkVertex(x, y) == [x |-> x, y |-> y]

EmptyContent ==
    [things |-> <<>>, linedefs |-> <<>>, sidedefs |-> <<>>, vertices |-> <<>>,
     segs |-> <<>>, subsectors |-> <<>>, nodes |-> <<>>, sectors |-> <<>>]

\* The eight lumps of a level in the order the format stores them after the
\* marker.
LumpsOf(content) ==
    <<content.things, content.linedefs, content.sidedefs, content.vertices,
      content.segs, content.subsectors, content.nodes, content.sectors>>

\* An archive: `before` lumps, the marker lump, then the level's eight lumps,
\* of which lump number `bad` (if 1..8) is malformed.  `found` is what the
\* lookup of the level's name returns: the marker's position, or nothing
\* when the archive holds the lumps under another name.
MkArchive(found, before, content, bad) ==
    [index |-> found,
     lumps |-> [i \in 1..before |-> [ok |-> TRUE, records |-> <<>>]]
               \o <<[ok |-> TRUE, records |-> <<>>]>>
               \o [k \in 1..8 |-> [ok |-> k # bad,
                                   records |-> LumpsOf(content)[k]]]]

\* Sidedefs of a level with n sectors, one per sector: rotated by one
\* against the sectors, or shifted by one (the last names a sector that does
\* not exist).
SidedefMaps(n) ==
    {[i \in 1..n |-> MkSidedef(i % n, PlainName)],
     [i \in 1..n |-> MkSidedef(i, PlainName)]}

Linedefs(sides) == {MkLinedef(l, r) : l \in sides, r \in sides}

\* Levels of up to MaxSectors sectors and MaxLinedefs linedefs; a side is -1,
\* a sidedef, or the first index past the sidedefs.
AdjacencyContents ==
    UNION {
      {[EmptyContent EXCEPT !.sectors = sectors, !.sidedefs = sidedefs,
                            !.linedefs = linedefs] :
         sectors \in [1..n -> {MkSector(light, PlainName) :
                                 light \in {50, 200}}],
         sidedefs \in SidedefMaps(n),
         linedefs \in SeqsUpTo(Linedefs((-1)..n), MaxLinedefs)} :
      n \in 1..MaxSectors}

\* Three sectors with the three light levels in every order, three sidedefs,
\* and every pair of linedefs over them.
ThreeSectorContents ==
    {[EmptyContent EXCEPT
        !.sectors = [i \in 1..3 |-> MkSector(lights[i], PlainName)],
        !.sidedefs = [i \in 1..3 |-> MkSidedef(i % 3, PlainName)],
        !.linedefs = linedefs] :
       lights \in {f \in [1..3 -> LightLevels] :
                     \A i, j \in 1..3 : i # j => f[i] # f[j]},
       linedefs \in [1..2 -> Linedefs((-1)..2)]}

\* One seg on one linedef: every side index from -2 to one past the
\* sidedefs, every direction, linedef and vertex ids valid or one too far.
SegContents ==
    {[EmptyContent EXCEPT
        !.sectors = <<MkSector(200, PlainName), MkSector(50, PlainName)>>,
        !.sidedefs = <<MkSidedef(1, PlainName), MkSidedef(0, PlainName),
                       MkSidedef(2, PlainName)>>,
        !.vertices = <<MkVertex(3, -4)>>,
        !.linedefs = <<linedef>>,
        !.segs = <<seg>>] :
       linedef \in Linedefs((-2)..3),
       seg \in {MkSeg(line, dir, sv, ev) :
                  line \in 0..1, dir \in 0..2, sv \in 0..1, ev \in 0..1}}

\* Up to MaxSegs segs and one subsector over them, its range inside the segs
\* or up to one past them.
SubsectorContents ==
    UNION {
      {[EmptyContent EXCEPT
          !.segs = [i \in 1..n |-> MkSeg(i, 0, 0, 0)],
          !.subsectors = <<MkSubsector(first, num)>>] :
         first \in 0..(n + 1), num \in 0..(n + 1)} :
      n \in 0..MaxSegs}

\* Levels whose lumps hold raw texture names, things and nodes.
LoaderContents ==
    {[things |-> things, linedefs |-> <<MkLinedef(0, 1), MkLinedef(0, -1)>>,
      sidedefs |-> <<MkSidedef(0, name), MkSidedef(1, PlainName)>>,
      vertices |-> <<MkVertex(1, 2), MkVertex(3, -4)>>,
      segs |-> <<MkSeg(0, 0, 0, 1), MkSeg(1, 1, 1, 0)>>,
      subsectors |-> <<MkSubsector(0, 1)>>,
      nodes |-> things \o <<3>>,
      sectors |-> <<MkSector(200, name), MkSector(50, PlainName)>>] :
       things \in {<<>>, <<1, 2>>, <<2, 1>>}, name \in RawNames}

\* A level of WideSectors sectors with valid cross-references: the first
\* two sectors (light 200 and 50) are joined by one two-sided linedef, and
\* every other sector (light 120) has no linedef at all.
WideContents ==
    {[EmptyContent EXCEPT
        !.sectors = [i \in 1..WideSectors |->
                       MkSector(IF i = 1 THEN 200 ELSE IF i = 2 THEN 50
                                ELSE 120, PlainName)],
        !.sidedefs = <<MkSidedef(0, PlainName), MkSidedef(1, PlainName)>>,
        !.linedefs = <<MkLinedef(0, 1)>>]}

\* The archives of the wide level, of the three-sector levels and of the
\* levels that have segs, subsectors and vertices, all well formed.
WideArchives ==
    {MkArchive(Some(0), 0, content, 0) :
       content \in WideContents \cup ThreeSectorContents
                   \cup LoaderContents}

Archives ==
    {MkArchive(Some(0), 0, content, 0) :
       content \in AdjacencyContents \cup ThreeSectorContents
                   \cup SegContents \cup SubsectorContents}
    \cup UNION {
           {MkArchive(Some(before), before, content, bad) :
              content \in LoaderContents, bad \in 0..8} :
           before \in 0..MaxMarker}
    \cup {MkArchive(NoIndex, 0, content, bad) :
            content \in LoaderContents, bad \in 0..8}
    \cup {[index |-> NoIndex,
           lumps |-> [i \in 1..n |-> [ok |-> TRUE, records |-> <<>>]]] :
            n \in 0..MaxMarker}

----------------------------------------------------------------------------
(* The state machine: one load, then queries by any reader in any order *)

\* lastCall[r] is the last query reader r made, with its result.
NoCall == [op |-> "none", arg |-> <<>>, result |-> <<>>]

Init ==
    /\ archive \in Archives
    /\ pc = "start"
    /\ level = <<>>
    /\ reads = <<>>
    /\ lastCall = [r \in {"r1"} |-> NoCall]

\* Several readers sharing one Level, loaded from an archive whose lumps are
\* all well formed.
InitReaders ==
    /\ archive \in {MkArchive(Some(0), 0, content, 0) :
                      content \in LoaderContents}
    /\ pc = "start"
    /\ level = <<>>
    /\ reads = <<>>
    /\ lastCall = [r \in Readers |-> NoCall]

\* One reader of a Level that may hold more sectors than a SectorId counts.
InitWide ==
    /\ archive \in WideArchives
    /\ pc = "start"
    /\ level = <<>>
    /\ reads = <<>>
    /\ lastCall = [r \in {"r1"} |-> NoCall]

LoadLevel ==
    /\ pc = "start"
    /\ LET out == from_archive(archive)
       IN  /\ pc' = out.status
           /\ level' = out.level
           /\ reads' = out.reads
    /\ UNCHANGED <<archive, lastCall>>

\* A query by reader r: the Level is borrowed immutably.
Call(r, op, arg, result) ==
    /\ pc = "loaded"
    /\ r \in DOMAIN lastCall
    /\ lastCall' = [lastCall EXCEPT
                      ![r] = [op |-> op, arg |-> arg, result |-> result]]
    /\ UNCHANGED <<archive, pc, level, reads>>

Self == level[1]

Positions(v) == 0..(Len(v) - 1)

\* The positions of the sectors a caller asks about: all of them, or the
\* first two and the last two of a level of WideSectors sectors or more.
SectorPositions(L) ==
    IF Len(L.sectors) < WideSectors THEN Positions(L.sectors)
    ELSE {0, 1, Len(L.sectors) - 2, Len(L.sectors) - 1}

\* The sector references a caller can hold: the elements, and a copy of the
\* first sector at an address whose quotient is the last position or none.
SectorRefs(L) ==
    {ElemRef(i) : i \in SectorPositions(L)}
    \cup (IF L.sectors = <<>> THEN {}
          ELSE {<<"copy", L.sectors[1], q>> :
                  q \in {Len(L.sectors) - 1, Len(L.sectors)}})

CallVertex(r) ==
    /\ pc = "loaded"
    /\ \E id \in 0..Len(Self.vertices) :
          Call(r, "vertex", <<id>>, vertex(Self, id))

CallSegLinedef(r) ==
    /\ pc = "loaded"
    /\ \E i \in Positions(Self.segs) :
          Call(r, "seg_linedef", <<i>>, seg_linedef(Self, Self.segs[i + 1]))

CallSegVertices(r) ==
    /\ pc = "loaded"
    /\ \E i \in Positions(Self.segs) :
          Call(r, "seg_vertices", <<i>>, seg_vertices(Self, Self.segs[i + 1]))

CallSegSidedef(r) ==
    /\ pc = "loaded"
    /\ \E i \in Positions(Self.segs) :
          Call(r, "seg_sidedef", <<i>>, seg_sidedef(Self, Self.segs[i + 1]))

CallSegBackSidedef(r) ==
    /\ pc = "loaded"
    /\ \E i \in Positions(Self.segs) :
          Call(r, "seg_back_sidedef", <<i>>,
               seg_back_sidedef(Self, Self.segs[i + 1]))

CallSegSector(r) ==
    /\ pc = "loaded"
    /\ \E i \in Positions(Self.segs) :
          Call(r, "seg_sector", <<i>>, seg_sector(Self, Self.segs[i + 1]))

CallSegBackSector(r) ==
    /\ pc = "loaded"
    /\ \E i \in Positions(Self.segs) :
          Call(r, "seg_back_sector", <<i>>,
               seg_back_sector(Self, Self.segs[i + 1]))

CallLeftSidedef(r) ==
    /\ pc = "loaded"
    /\ \E i \in Positions(Self.linedefs) :
          Call(r, "left_sidedef", <<i>>,
               left_sidedef(Self, Self.linedefs[i + 1]))

CallRightSidedef(r) ==
    /\ pc = "loaded"
    /\ \E i \in Positions(Self.linedefs) :
          Call(r, "right_sidedef", <<i>>,
               right_sidedef(Self, Self.linedefs[i + 1]))

CallSidedefSector(r) ==
    /\ pc = "loaded"
    /\ \E i \in Positions(Self.sidedefs) :
          Call(r, "sidedef_sector", <<i>>,
               sidedef_sector(Self, Self.sidedefs[i + 1]))

CallSsectorSegs(r) ==
    /\ pc = "loaded"
    /\ \E i \in Positions(Self.subsectors) :
          Call(r, "ssector_segs", <<i>>,
               ssector_segs(Self, Self.subsectors[i + 1]))

CallSectorId(r) ==
    /\ pc = "loaded"
    /\ \E ref \in SectorRefs(Self) :
          Call(r, "sector_id", ref, sector_id(Self, ref))

\* A variant of the sector_min_light call that stores the minimum it found
\* in the sector, to answer the next call from it.
CallSectorMinLight_Cached(r) ==
    /\ pc = "loaded"
    /\ r \in DOMAIN lastCall
    /\ \E i \in SectorPositions(Self) :
          LET result == sector_min_light(Self, ElemRef(i))
          IN  /\ lastCall' = [lastCall EXCEPT
                                ![r] = [op |-> "sector_min_light",
                                        arg |-> ElemRef(i),
                                        result |-> result]]
              /\ level' = IF IsOk(result)
                          THEN <<[Self EXCEPT
                                    !.sectors[i + 1].light = result[2]]>>
                          ELSE level
    /\ UNCHANGED <<archive, pc, reads>>

CallSectorMinLight(r) ==
    /\ pc = "loaded"
    /\ \E ref \in SectorRefs(Self) :
          Call(r, "sector_min_light", ref, sector_min_light(Self, ref))

Next ==
    \/ LoadLevel
    \/ \E r \in Readers :
          \/ CallVertex(r)
          \/ CallSegLinedef(r)
          \/ CallSegVertices(r)
          \/ CallSegSidedef(r)
          \/ CallSegBackSidedef(r)
          \/ CallSegSector(r)
          \/ CallSegBackSector(r)
          \/ CallLeftSidedef(r)
          \/ CallRightSidedef(r)
          \/ CallSidedefSector(r)
          \/ CallSsectorSegs(r)
          \/ CallSectorId(r)
          \/ CallSectorMinLight(r)

Spec == Init /\ [][Next]_vars

SpecReaders == InitReaders /\ [][Next]_vars

SpecWide == InitWide /\ [][Next]_vars

----------------------------------------------------------------------------
(* What the claims are stated in: the calls made and the stored records *)

LastCalls == {lastCall[r] : r \in DOMAIN lastCall}

CallsOf(op) == {c \in LastCalls : c.op = op}

\* The record a call's argument (a position) refers to.
SegOf(c) == Self.segs[c.arg[1] + 1]

LinedefOf(c) == Self.linedefs[c.arg[1] + 1]

SidedefOf(c) == Self.sidedefs[c.arg[1] + 1]

SubsectorOf(c) == Self.subsectors[c.arg[1] + 1]

HasLinedef(seg) == seg.linedef \in Positions(Self.linedefs)

LineOfSeg(seg) == Self.linedefs[seg.linedef + 1]

IsSidedef(side) == side \in Positions(Self.sidedefs)

IsSector(id) == id \in Positions(Self.sectors)

SectorOfSide(side) == Self.sidedefs[side + 1].sector

\* Every linedef side is -1 or a sidedef, and every sidedef names a sector.
CrossRefsValid ==
    /\ \A k \in 1..Len(Self.linedefs) :
          /\ Self.linedefs[k].left_side = -1
             \/ IsSidedef(Self.linedefs[k].left_side)
          /\ Self.linedefs[k].right_side = -1
             \/ IsSidedef(Self.linedefs[k].right_side)
    /\ \A k \in 1..Len(Self.sidedefs) : IsSector(Self.sidedefs[k].sector)

TwoSidedLines ==
    {k \in 1..Len(Self.linedefs) :
       Self.linedefs[k].left_side # -1 /\ Self.linedefs[k].right_side # -1}

\* The sectors across a two-sided linedef from sector i.
AcrossFrom(i) ==
    {SectorOfSide(Self.linedefs[k].right_side) :
       k \in {j \in TwoSidedLines :
                SectorOfSide(Self.linedefs[j].left_side) = i}}
    \cup {SectorOfSide(Self.linedefs[k].left_side) :
            k \in {j \in TwoSidedLines :
                     SectorOfSide(Self.linedefs[j].right_side) = i}}

SetMin(S) == CHOOSE m \in S : \A x \in S : m <= x

----------------------------------------------------------------------------
(* C1 *)

\* C1: in a level with valid cross-references, sector_min_light of a sector
\* of the level is the minimum of its own light and the lights of the sectors
\* across its two-sided linedefs, so it is never above its own light.
\* The level of WideSectors sectors violates it: sector_id truncates the
\* position of the last sector to a SectorId, the scan then runs with the id
\* of the first sector and takes the light of the first sector's neighbour.
C1_MinLightIsMinimumOverNeighbours ==
    pc = "loaded" =>
      \A c \in CallsOf("sector_min_light") :
         (c.arg[1] = "elem" /\ CrossRefsValid) =>
            LET own == Self.sectors[c.arg[2] + 1].light
                lights == {own} \cup {Self.sectors[j + 1].light :
                                        j \in AcrossFrom(c.arg[2])}
            IN  /\ c.result = Ok(SetMin(lights))
                /\ c.result[2] <= own

----------------------------------------------------------------------------
(* C2 *)

FrontOk(seg) ==
    /\ seg.direction \in {0, 1}
    /\ HasLinedef(seg)
    /\ IsSidedef(IF seg.direction = 0 THEN LineOfSeg(seg).right_side
                 ELSE LineOfSeg(seg).left_side)

\* C2: for a seg of direction 0 or 1 whose front side is present, seg_sidedef
\* is the linedef's right sidedef for direction 0 and its left sidedef for
\* direction 1; seg_back_sidedef resolves the other side, and returns nothing
\* exactly when that side's index is -1.
C2_SegSidesFollowDirection ==
    pc = "loaded" =>
      /\ \A c \in CallsOf("seg_sidedef") :
            FrontOk(SegOf(c)) =>
               /\ SegOf(c).direction = 0 =>
                     c.result = Ok(ElemRef(LineOfSeg(SegOf(c)).right_side))
               /\ SegOf(c).direction = 1 =>
                     c.result = Ok(ElemRef(LineOfSeg(SegOf(c)).left_side))
      /\ \A c \in CallsOf("seg_back_sidedef") :
            FrontOk(SegOf(c)) =>
               LET opposite == IF SegOf(c).direction = 0
                               THEN LineOfSeg(SegOf(c)).left_side
                               ELSE LineOfSeg(SegOf(c)).right_side
               IN  /\ (c.result = Ok(None)) <=> (opposite = -1)
                   /\ IsSidedef(opposite) =>
                         c.result = Ok(Some(ElemRef(opposite)))

\* A reversed seg on a two-sided linedef: its back side is the right sidedef.
C2_Witness ==
    /\ pc = "loaded"
    /\ \E c \in CallsOf("seg_back_sidedef") :
          /\ FrontOk(SegOf(c))
          /\ SegOf(c).direction = 1
          /\ LineOfSeg(SegOf(c)).right_side # LineOfSeg(SegOf(c)).left_side
          /\ c.result = Ok(Some(ElemRef(LineOfSeg(SegOf(c)).right_side)))

----------------------------------------------------------------------------
(* C3 *)

\* A linedef with a right sidedef and no left one.
OneSided(line) == line.left_side = -1 /\ IsSidedef(line.right_side)

\* C3 as claimed: on a one-sided linedef (right present, left -1)
\* left_sidedef returns nothing, and seg_back_sidedef of a seg on it returns
\* nothing for direction 0 and for direction 1 alike.
C3_BackSideMissingForBothDirections ==
    pc = "loaded" =>
      /\ \A c \in CallsOf("left_sidedef") :
            OneSided(LinedefOf(c)) => c.result = Ok(None)
      /\ \A c \in CallsOf("seg_back_sidedef") :
            (/\ HasLinedef(SegOf(c))
             /\ OneSided(LineOfSeg(SegOf(c)))
             /\ SegOf(c).direction \in {0, 1}) => c.result = Ok(None)

\* C3 as amended: on a one-sided linedef (right present, left -1)
\* left_sidedef returns nothing and seg_back_sidedef returns nothing for a seg
\* of direction 0; for a seg of direction 1 the back side is the linedef's
\* right side, so seg_back_sidedef returns the right sidedef.
C3_BackSideMissingForDirectionZero ==
    pc = "loaded" =>
      /\ \A c \in CallsOf("left_sidedef") :
            OneSided(LinedefOf(c)) => c.result = Ok(None)
      /\ \A c \in CallsOf("seg_back_sidedef") :
            (HasLinedef(SegOf(c)) /\ OneSided(LineOfSeg(SegOf(c)))) =>
               /\ SegOf(c).direction = 0 => c.result = Ok(None)
               /\ SegOf(c).direction = 1 =>
                     c.result = Ok(Some(ElemRef(LineOfSeg(SegOf(c)).right_side)))

\* A reversed seg on a one-sided linedef whose back sidedef was returned.
C3_Witness ==
    /\ pc = "loaded"
    /\ \E c \in CallsOf("seg_back_sidedef") :
          /\ HasLinedef(SegOf(c))
          /\ OneSided(LineOfSeg(SegOf(c)))
          /\ SegOf(c).direction = 1
          /\ IsOk(c.result)
          /\ IsSome(c.result[2])

----------------------------------------------------------------------------
(* C4 *)

\* What a side index alone determines: nothing for -1, the sidedef at that
\* position for a valid index, a failed call for any other index.
SideLookup(side) ==
    IF side = -1 THEN Ok(None)
    ELSE IF IsSidedef(side) THEN Ok(Some(ElemRef(side)))
    ELSE Panic

\* C4: left_sidedef (right_sidedef) returns nothing exactly when left_side
\* (right_side) is -1 and otherwise the sidedef at that position; the result
\* depends on that side's index only, never on the other side's.
C4_SidedefLookupBySideIndex ==
    pc = "loaded" =>
      /\ \A c \in CallsOf("left_sidedef") :
            /\ (c.result = Ok(None)) <=> (LinedefOf(c).left_side = -1)
            /\ c.result = SideLookup(LinedefOf(c).left_side)
      /\ \A c \in CallsOf("right_sidedef") :
            /\ (c.result = Ok(None)) <=> (LinedefOf(c).right_side = -1)
            /\ c.result = SideLookup(LinedefOf(c).right_side)

\* The right sidedef of a linedef that has no left one.
C4_Witness ==
    /\ pc = "loaded"
    /\ \E c \in CallsOf("right_sidedef") :
          /\ LinedefOf(c).left_side = -1
          /\ IsSidedef(LinedefOf(c).right_side)
          /\ c.result = Ok(Some(ElemRef(LinedefOf(c).right_side)))

----------------------------------------------------------------------------
(* C5 *)

\* The checks every query but sector_min_light makes: an index outside the
\* vector it is used on fails the call.
IndexedQueriesFail ==
    /\ \A c \in CallsOf("vertex") :
          c.arg[1] \notin Positions(Self.vertices) => c.result = Panic
    /\ \A c \in CallsOf("seg_vertices") :
          (\/ SegOf(c).start_vertex \notin Positions(Self.vertices)
           \/ SegOf(c).end_vertex \notin Positions(Self.vertices)) =>
             c.result = Panic
    /\ \A c \in CallsOf("seg_linedef") \cup CallsOf("seg_sidedef")
                \cup CallsOf("seg_back_sidedef") \cup CallsOf("seg_sector")
                \cup CallsOf("seg_back_sector") :
          ~HasLinedef(SegOf(c)) => c.result = Panic
    /\ \A c \in CallsOf("left_sidedef") :
          (LinedefOf(c).left_side # -1 /\ ~IsSidedef(LinedefOf(c).left_side))
             => c.result = Panic
    /\ \A c \in CallsOf("right_sidedef") :
          (LinedefOf(c).right_side # -1
           /\ ~IsSidedef(LinedefOf(c).right_side)) => c.result = Panic
    /\ \A c \in CallsOf("sidedef_sector") :
          ~IsSector(SidedefOf(c).sector) => c.result = Panic
    /\ \A c \in CallsOf("seg_sector") :
          (HasLinedef(SegOf(c)) /\ SegOf(c).direction \in {0, 1}) =>
             LET front == IF SegOf(c).direction = 0
                          THEN LineOfSeg(SegOf(c)).right_side
                          ELSE LineOfSeg(SegOf(c)).left_side
             IN  (IsSidedef(front) /\ ~IsSector(SectorOfSide(front))) =>
                    c.result = Panic
    /\ \A c \in CallsOf("seg_sidedef") \cup CallsOf("seg_sector") :
          (HasLinedef(SegOf(c)) /\ SegOf(c).direction \in {0, 1}) =>
             LET front == IF SegOf(c).direction = 0
                          THEN LineOfSeg(SegOf(c)).right_side
                          ELSE LineOfSeg(SegOf(c)).left_side
             IN  (front # -1 /\ ~IsSidedef(front)) => c.result = Panic
    /\ \A c \in CallsOf("seg_back_sidedef") \cup CallsOf("seg_back_sector") :
          (HasLinedef(SegOf(c)) /\ SegOf(c).direction \in {0, 1}) =>
             LET back == IF SegOf(c).direction = 0
                         THEN LineOfSeg(SegOf(c)).left_side
                         ELSE LineOfSeg(SegOf(c)).right_side
             IN  (back # -1 /\ ~IsSidedef(back)) => c.result = Panic
    /\ \A c \in CallsOf("seg_back_sector") :
          (HasLinedef(SegOf(c)) /\ SegOf(c).direction \in {0, 1}) =>
             LET back == IF SegOf(c).direction = 0
                         THEN LineOfSeg(SegOf(c)).left_side
                         ELSE LineOfSeg(SegOf(c)).right_side
             IN  (IsSidedef(back) /\ ~IsSector(SectorOfSide(back))) =>
                    c.result = Panic
    /\ \A c \in CallsOf("ssector_segs") :
          SubsectorOf(c).first_seg + SubsectorOf(c).num_segs > Len(Self.segs)
             => c.result = Panic

\* Linedef k has both sidedefs, and one of them names a sector that does not
\* exist.
TwoSidedWithBadSector(k) ==
    /\ IsSidedef(Self.linedefs[k].left_side)
    /\ IsSidedef(Self.linedefs[k].right_side)
    /\ \/ ~IsSector(SectorOfSide(Self.linedefs[k].left_side))
       \/ ~IsSector(SectorOfSide(Self.linedefs[k].right_side))

\* Linedef k has both sidedefs, one of them belongs to sector i, and the
\* other names a sector that does not exist.
BorderWithBadSector(k, i) ==
    /\ IsSidedef(Self.linedefs[k].left_side)
    /\ IsSidedef(Self.linedefs[k].right_side)
    /\ \/ /\ SectorOfSide(Self.linedefs[k].left_side) = i
          /\ ~IsSector(SectorOfSide(Self.linedefs[k].right_side))
       \/ /\ SectorOfSide(Self.linedefs[k].right_side) = i
          /\ ~IsSector(SectorOfSide(Self.linedefs[k].left_side))

\* Linedef k has a side index that the scan of sector_min_light resolves and
\* that is neither -1 nor a sidedef: the left one, or the right one when the
\* left side is present.
UnresolvableSide(k) ==
    \/ Self.linedefs[k].left_side # -1
       /\ ~IsSidedef(Self.linedefs[k].left_side)
    \/ /\ IsSidedef(Self.linedefs[k].left_side)
       /\ Self.linedefs[k].right_side # -1
       /\ ~IsSidedef(Self.linedefs[k].right_side)

\* C5 as claimed: a query that reads a stored cross-reference pointing
\* outside its target vector fails; in particular sector_min_light fails
\* whenever a two-sided linedef it scans has a sidedef whose sector index is
\* out of range.
C5_EveryBadReferenceReadFails ==
    pc = "loaded" =>
      /\ IndexedQueriesFail
      /\ \A c \in CallsOf("sector_min_light") :
            (/\ c.arg[1] = "elem"
             /\ \E k \in 1..Len(Self.linedefs) : TwoSidedWithBadSector(k))
               => c.result = Panic

\* C5 as amended: as claimed for every query but sector_min_light.
\* sector_min_light of a sector of the level fails exactly when some linedef
\* has a side index it resolves that is neither -1 nor a sidedef, or is
\* two-sided with one sidedef in the queried sector and the other sidedef's
\* sector index out of range.  A two-sided linedef neither of whose sidedefs
\* belongs to the queried sector is skipped: its sector indices are compared,
\* not used as indices, and an out-of-range one does not fail the call.
C5_BadReferenceFailsWhereIndexed ==
    pc = "loaded" =>
      /\ IndexedQueriesFail
      /\ \A c \in CallsOf("sector_min_light") :
            c.arg[1] = "elem" =>
               ((c.result = Panic) <=>
                  \E k \in 1..Len(Self.linedefs) :
                     UnresolvableSide(k) \/ BorderWithBadSector(k, c.arg[2]))

\* sector_min_light failed on a border linedef whose far sidedef names a
\* sector that does not exist.
C5_Witness ==
    /\ pc = "loaded"
    /\ \E c \in CallsOf("sector_min_light") :
          /\ c.arg[1] = "elem"
          /\ c.result = Panic
          /\ \A k \in 1..Len(Self.linedefs) : ~UnresolvableSide(k)
          /\ \E k \in 1..Len(Self.linedefs) : BorderWithBadSector(k, c.arg[2])

----------------------------------------------------------------------------
(* C6 *)

\* C6: when the front side of a seg (right for direction 0, left for
\* direction 1) is -1, seg_sidedef fails and so does seg_sector; when the
\* back side is -1, seg_back_sidedef and seg_back_sector return nothing and
\* do not fail.
C6_MissingFrontFailsMissingBackIsNothing ==
    pc = "loaded" =>
      /\ \A c \in CallsOf("seg_sidedef") \cup CallsOf("seg_sector") :
            (/\ HasLinedef(SegOf(c))
             /\ \/ SegOf(c).direction = 0
                   /\ LineOfSeg(SegOf(c)).right_side = -1
                \/ SegOf(c).direction = 1
                   /\ LineOfSeg(SegOf(c)).left_side = -1) => c.result = Panic
      /\ \A c \in CallsOf("seg_back_sidedef") \cup CallsOf("seg_back_sector") :
            (/\ HasLinedef(SegOf(c))
             /\ \/ SegOf(c).direction = 0
                   /\ LineOfSeg(SegOf(c)).left_side = -1
                \/ SegOf(c).direction = 1
                   /\ LineOfSeg(SegOf(c)).right_side = -1) =>
               c.result = Ok(None)

\* seg_sector failed on a seg whose front side is missing although its back
\* side has a sidedef with a sector.
C6_Witness ==
    /\ pc = "loaded"
    /\ \E c \in CallsOf("seg_sector") :
          /\ HasLinedef(SegOf(c))
          /\ SegOf(c).direction = 0
          /\ LineOfSeg(SegOf(c)).right_side = -1
          /\ IsSidedef(LineOfSeg(SegOf(c)).left_side)
          /\ IsSector(SectorOfSide(LineOfSeg(SegOf(c)).left_side))
          /\ c.result = Panic

----------------------------------------------------------------------------
(* C7, C8 *)

\* The position of the level's marker lump, and the records of the lump at
\* an offset from it.
Marker == archive.index[2]

LumpAt(offset) == archive.lumps[Marker + offset + 1].records

\* C7: a successful load issues exactly eight reads, one for each of the
\* positions marker+1 .. marker+8, and stores the lump at +1 in things, +2 in
\* linedefs, +3 in sidedefs, +4 in vertices, +5 in segs, +6 in subsectors, +7
\* in nodes and +8 in sectors, each with its record count and order.
C7_LoadReadsEightLumpsByOffset ==
    pc = "loaded" =>
      /\ Len(reads) = 8
      /\ {reads[k] : k \in 1..Len(reads)} = {Marker + d : d \in 1..8}
      /\ Self.things = LumpAt(1)
      /\ Self.linedefs = LumpAt(2)
      /\ Len(Self.sidedefs) = Len(LumpAt(3))
      /\ \A i \in 1..Len(Self.sidedefs) :
            Self.sidedefs[i].sector = LumpAt(3)[i].sector
      /\ Self.vertices = LumpAt(4)
      /\ Self.segs = LumpAt(5)
      /\ Self.subsectors = LumpAt(6)
      /\ Self.nodes = LumpAt(7)
      /\ Len(Self.sectors) = Len(LumpAt(8))
      /\ \A i \in 1..Len(Self.sectors) :
            Self.sectors[i].light = LumpAt(8)[i].light

\* A level loaded from a marker that is not the archive's first lump, with
\* things in an order of their own and a texture name that changed.
C7_Witness ==
    /\ pc = "loaded"
    /\ Marker = 1
    /\ Self.things = <<2, 1>>
    /\ Self.sidedefs[1].lower_texture # LumpAt(3)[1].lower_texture
    /\ Self.sidedefs[1].sector # Self.sidedefs[2].sector

\* C8: when the lookup of the level name finds nothing, the load fails with
\* "no such level" without having issued a read, and produces no Level.
C8_MissingLevelFailsBeforeAnyRead ==
    archive.index = NoIndex =>
      /\ pc \in {"start", "no_such_level"}
      /\ reads = <<>>
      /\ level = <<>>

\* The load has failed for a name the archive does not know, although the
\* archive holds a marker and eight well-formed lumps.
C8_Witness ==
    /\ archive.index = NoIndex
    /\ pc = "no_such_level"
    /\ Len(archive.lumps) = 9
    /\ \A i \in 1..Len(archive.lumps) : archive.lumps[i].ok

----------------------------------------------------------------------------
(* C9 *)

\* C9: for a subsector whose range lies within the segs, ssector_segs returns
\* num_segs elements, the segs at first_seg, first_seg+1, ... in that order;
\* for num_segs = 0 it returns an empty view for every first_seg up to and
\* including the number of segs.
C9_SsectorSegsIsTheRange ==
    pc = "loaded" =>
      \A c \in CallsOf("ssector_segs") :
         LET first == SubsectorOf(c).first_seg
             num == SubsectorOf(c).num_segs
         IN  first + num <= Len(Self.segs) =>
               /\ IsOk(c.result)
               /\ Len(c.result[2]) = num
               /\ \A j \in 1..num : c.result[2][j] = Self.segs[first + j]
               /\ num = 0 => c.result = Ok(<<>>)

\* An empty subsector that starts right after the last seg.
C9_Witness ==
    /\ pc = "loaded"
    /\ \E c \in CallsOf("ssector_segs") :
          /\ Len(Self.segs) >= 1
          /\ SubsectorOf(c).first_seg = Len(Self.segs)
          /\ SubsectorOf(c).num_segs = 0
          /\ c.result = Ok(<<>>)

----------------------------------------------------------------------------
(* C10 *)

\* Two readers that made the same query with the same argument hold the
\* same result.
SameAnswers ==
    \A r1, r2 \in DOMAIN lastCall :
       (lastCall[r1].op = lastCall[r2].op
        /\ lastCall[r1].arg = lastCall[r2].arg) =>
          lastCall[r1].result = lastCall[r2].result

\* C10: once the level is loaded, no step of any reader, whether its query
\* succeeds or fails, changes any of the eight sequences, and a query gives
\* the same result for the same argument whatever ran before it.
C10_QueriesLeaveTheLevelUnchanged ==
    [][pc = "loaded" => (level' = level /\ SameAnswers')]_vars

\* One reader's query has failed and the other's sector_min_light has found
\* a neighbour dimmer than the sector itself.
C10_Witness ==
    /\ pc = "loaded"
    /\ lastCall["r1"].result = Panic
    /\ lastCall["r2"].op = "sector_min_light"
    /\ lastCall["r2"].arg[1] = "elem"
    /\ IsOk(lastCall["r2"].result)
    /\ lastCall["r2"].result[2] < Self.sectors[lastCall["r2"].arg[2] + 1].light

====
